---- MODULE Spec2Model ----
(***************************************************************************)
(* A model of channeld's connection core, pkg/channeld/connection.go:      *)
(* the connection registry and id allocation, the Close / Send /           *)
(* OnAuthenticated lifecycle under concurrent callers, the flush worker,   *)
(* the receive worker's packet scan over the read buffer, and the 5-byte   *)
(* header codec.                                                           *)
(***************************************************************************)
EXTENDS Integers, Sequences, FiniteSets, TLC

(***************************************************************************)
(* Program constants (connection.go:28-37).                                *)
(***************************************************************************)
MaxPacketSize == 65535
PacketHeaderSize == 5
ConnectionState_UNAUTHENTICATED == 0
ConnectionState_AUTHENTICATED == 1
ConnectionState_CLOSING == 2
\* flush stops draining when the running size reaches 0xfffff0 (line 625)
FlushSizeLimit == 16777200
\* the first header byte, 'C' (lines 451, 664), and the 'H' 'N' fillers
TagC == 67
TagH == 72
TagN == 78
TagL == 76
\* channeldpb.MessageType_USER_SPACE_START
USER_SPACE_START == 100

(***************************************************************************)
(* Bounds of the model.                                                    *)
(***************************************************************************)
\* connection objects ever allocated by AddConnection
MaxConns == 2
\* GlobalSettings.MaxConnectionIdBits of the checked configuration
MaxConnectionIdBits == 2
\* AddConnection gives up after this many collisions (100 in the source)
MaxTries == 1
\* capacity of the send queue (128 in the source)
SendQueueCap == 2
\* operations each caller goroutine starts
MaxOps == 2
\* close handlers registered on one connection
MaxHandlers == 1
\* GlobalSettings.ClientReadBufferSize of the checked configuration
ReadBufferSize == 14
\* packets the peer writes on the socket
MaxFrames == 2
\* packets the peer writes on the socket of the connection that is only read
MaxScanFrames == 3
\* largest step of the clock between two recorded packets
MaxTick == 1
\* zero-byte reads of a full read buffer that are followed
MaxSpin == 1

Nil == 0
ConnObj == 1 .. MaxConns
Acceptors == {"SERVER", "CLIENT"}
Threads == {1, 2}
\* the receive goroutine of connection o, when it calls Close
RecvThread(o) == 10 + o
AllThreads == Threads \cup {RecvThread(o) : o \in ConnObj}
maxConnId == 2 ^ MaxConnectionIdBits - 1
\* keys the registry is ever asked for: nextConnectionId after racing increments
IdSpace == 0 .. (maxConnId + 1)

(***************************************************************************)
(* The 5-byte header, as flush writes it and readPacket reads it.          *)
(***************************************************************************)
\* channeldpb.CompressionType_name: NO_COMPRESSION = 0, SNAPPY = 1
CompressionType_name == {0, 1}
CompressionType_SNAPPY == 1

\* flush, lines 663-672: tag := {67, 72, 78, 76, ct}; the low byte always,
\* the middle byte when len > 0xff, the high byte when len > 0xffff
EncodeHeader(len, ct) ==
    <<TagC,
      IF len > 65535 THEN (len \div 65536) % 256 ELSE TagH,
      IF len > 255 THEN (len \div 256) % 256 ELSE TagN,
      len % 256,
      ct % 256>>

\* readPacket, lines 460-465.  The three bytes occupy disjoint bits, so the
\* bitwise ors of the source are sums.
DecodeSize(tag) ==
    IF tag[2] # TagH
    THEN tag[4] + tag[2] * 65536 + tag[3] * 256
    ELSE IF tag[3] # TagN
         THEN tag[4] + tag[3] * 256
         ELSE tag[4]

\* readPacket, lines 493-495: the compression type the header selects, or 0
\* when byte 4 is zero or not of the enum
DecodeCompression(tag) ==
    IF tag[5] \in CompressionType_name /\ tag[5] # 0 THEN tag[5] ELSE 0

\* snappy.Encode / snappy.Decode: the block format opens with the length of
\* the uncompressed data; Decode fails when it does not match
SnappyEncode(bytes) == <<Len(bytes)>> \o bytes
SnappyDecodeOk(bytes) == Len(bytes) >= 1 /\ bytes[1] = Len(bytes) - 1
SnappyDecode(bytes) == SubSeq(bytes, 2, Len(bytes))

(***************************************************************************)
(* The Packet envelope on the inbound wire.  One payload byte stands for   *)
(* one MessagePack; BadByte is a byte proto.Unmarshal rejects.             *)
(***************************************************************************)
MSG_AUTH == 1
MSG_SYSTEM == 2
MSG_USER == 100
\* a system-range type with no entry in MessageMap
MSG_UNDEFINED == 50
\* a MessagePack addressed to a channel that does not exist
MSG_NOCHANNEL == 9
\* a system message whose body proto.Unmarshal rejects
MSG_BADBODY == 3
BadByte == 255
MsgBytes ==
    {MSG_AUTH, MSG_SYSTEM, MSG_USER, MSG_UNDEFINED, MSG_NOCHANNEL, MSG_BADBODY}
\* MessageMap: the system types that have an entry
MessageMap == {MSG_AUTH, MSG_SYSTEM, MSG_BADBODY}

\* proto.Unmarshal(bytes, &p), line 513
UnmarshalOk(bytes) == \A i \in 1 .. Len(bytes) : bytes[i] \in MsgBytes
Unmarshal(bytes) ==
    [i \in 1 .. Len(bytes) |->
        [ChannelId |-> IF bytes[i] = MSG_NOCHANNEL THEN 9 ELSE 0,
         MsgType |-> bytes[i]]]

(***************************************************************************)
(* The connection FSM (pkg/fsm), a per-connection cursor over a template:  *)
(* INIT allows only AUTH and moves to HANDSHAKE on receiving it; HANDSHAKE *)
(* allows only AUTH; OPEN, entered by MoveToNextState, allows every type.  *)
(***************************************************************************)
FSM_INIT == 1
FSM_HANDSHAKE == 2
FSM_OPEN == 3
FsmIsAllowed(s, msgType) ==
    IF s = FSM_OPEN THEN TRUE ELSE msgType = MSG_AUTH
FsmOnReceived(s, msgType) ==
    IF s = FSM_INIT /\ msgType = MSG_AUTH THEN FSM_HANDSHAKE ELSE s
FsmHasNext(s) == s < FSM_OPEN
FsmMoveToNextState(s) == IF s < FSM_OPEN THEN s + 1 ELSE s

(***************************************************************************)
(* State.                                                                  *)
(***************************************************************************)
VARIABLES
    GlobalSettings,             \* Development, EnableRecordPacket, ConnectionAuthTimeoutMs > 0
    allConnections,             \* ConnectionId -> connection object, Nil when absent
    unauthenticatedConnections, \* ConnectionId -> connection object, Nil when absent
    nextConnectionId,           \* the package variable of line 76
    connectionNum,              \* the gauge, one value per connection type
    conn,                       \* the Connection objects allocated so far, in order
    acc,                        \* each listener's position in StartListening / AddConnection
    thr,                        \* each caller goroutine's position in Close / Send / OnAuthenticated
    flushw,                     \* each connection's flush goroutine
    recvw,                      \* each connection's receive goroutine
    inStream,                   \* bytes the peer has written and the socket has yet to deliver
    metrics,                    \* the packetDropped and packetReceived counters
    obs,                        \* what each connection has done so far, for the properties
    now,                        \* time.Now().UnixNano()
    codec,                      \* a header on its way from flush to readPacket
    panicked                    \* "" or the unrecovered panic that ended the process

vars == <<GlobalSettings, allConnections, unauthenticatedConnections,
          nextConnectionId, connectionNum, conn, acc, thr, flushw, recvw,
          inStream, metrics, obs, now, codec, panicked>>

Running == panicked = ""

\* IsClosing, lines 327-329
IsClosing(c) == c.state > ConnectionState_AUTHENTICATED

\* isPacketRecordingEnabled, lines 533-535
isPacketRecordingEnabled(c) ==
    c.connectionType = "CLIENT" /\ GlobalSettings.EnableRecordPacket

\* GetConnection, lines 118-128
GetConnection(id) ==
    IF id \in IdSpace /\ allConnections[id] # Nil
    THEN IF IsClosing(conn[allConnections[id]]) THEN Nil ELSE allConnections[id]
    ELSE Nil

\* the Connection literal of AddConnection, lines 238-283
NewConnection(id, t) ==
    [id |-> id,
     connectionType |-> t,
     compressionType |-> 0,
     readBuffer |-> [i \in 1 .. ReadBufferSize |-> 0],
     readPos |-> 0,
     sendQueue |-> <<>>,
     queueClosed |-> FALSE,
     socketClosed |-> FALSE,
     pit |-> "",
     fsm |-> FSM_INIT,
     state |-> ConnectionState_UNAUTHENTICATED,
     closeHandlers |-> <<>>,
     replaySession |-> <<>>]

NewObs ==
    [closeReturned |-> FALSE,
     persisted |-> 0,
     handlerCalls |-> <<>>,
     socketCloseCalls |-> 0,
     deregistrations |-> 0,
     gaugeDecs |-> 0,
     accepted |-> <<>>,
     wire |-> <<>>,
     putMessages |-> <<>>,
     onReceivedCalls |-> 0,
     received |-> <<>>,
     decoded |-> <<>>,
     disallowed |-> 0,
     frames |-> <<>>]

IdleThread == [op |-> "none", pc |-> "idle", o |-> Nil, ops |-> 0, late |-> FALSE]
IdleAcceptor == [pc |-> "idle", tries |-> 0, o |-> Nil]
NewFlushWorker ==
    [pc |-> "loop", p |-> <<>>, size |-> 0, len |-> 0, snappy |-> FALSE,
     tag |-> <<>>]
NewRecvWorker == [pc |-> "loop", bufPos |-> 0, spins |-> 0]
NoCodec == [len |-> 0, ct |-> 0, tag |-> <<>>, read |-> <<>>]
\* The counters nothing reads back and no property names
\* (fragmentedPacketCount, combinedPacketCount, bytesReceived, msgReceived
\* and the counters of flush) are left out.
NoMetrics == [packetDropped |-> 0, packetReceived |-> 0]

\* InitConnections, lines 80-116, and the package variables
Init ==
    /\ GlobalSettings \in
         [Development : BOOLEAN, EnableRecordPacket : {TRUE}, AuthTimeout : {TRUE}]
    /\ allConnections = [i \in IdSpace |-> Nil]
    /\ unauthenticatedConnections = [i \in IdSpace |-> Nil]
    /\ nextConnectionId = 0
    /\ connectionNum = [t \in Acceptors |-> 0]
    /\ conn = <<>>
    /\ acc = [a \in Acceptors |-> IdleAcceptor]
    /\ thr = [t \in AllThreads |-> IdleThread]
    /\ flushw = <<>>
    /\ recvw = <<>>
    /\ inStream = <<>>
    /\ metrics = NoMetrics
    /\ obs = <<>>
    /\ now = 0
    /\ codec = NoCodec
    /\ panicked = ""

(***************************************************************************)
(* StartListening and AddConnection, one step per access to the shared     *)
(* nextConnectionId and registry.                                          *)
(***************************************************************************)
\* connection objects allocated or about to be
Allocating == {a \in Acceptors : acc[a].pc \in {"gen", "lim", "chk", "new"}}

\* StartListening, lines 173-188: Accept returns a connection of a peer that
\* is not banned, and AddConnection is entered
Accept(a) ==
    /\ Running
    /\ acc[a].pc = "idle"
    /\ Len(conn) + Cardinality(Allocating) < MaxConns
    /\ acc' = [acc EXCEPT ![a] = [pc |-> "gen", tries |-> 0, o |-> Nil]]
    /\ UNCHANGED <<GlobalSettings, codec, allConnections, unauthenticatedConnections,
                   nextConnectionId, connectionNum, conn, thr, flushw, recvw,
                   inStream, metrics, obs, now, panicked>>

\* generateNextConnId, line 197 (development) and lines 204-206 (production,
\* where the hash and the clock make the masked value arbitrary).  The
\* counter stays far below 2^32: line 200 ends the process at maxConnId.
generateNextConnId(a) ==
    /\ Running
    /\ acc[a].pc = "gen"
    /\ IF GlobalSettings.Development
       THEN /\ nextConnectionId' = nextConnectionId + 1
            /\ acc' = [acc EXCEPT ![a].pc = "lim"]
       ELSE /\ nextConnectionId' \in 0 .. maxConnId
            /\ acc' = [acc EXCEPT ![a].pc = "chk"]
    /\ UNCHANGED <<GlobalSettings, codec, allConnections, unauthenticatedConnections,
                   connectionNum, conn, thr, flushw, recvw, inStream, metrics,
                   obs, now, panicked>>

\* generateNextConnId, lines 198-201
CheckIdLimit(a) ==
    /\ Running
    /\ acc[a].pc = "lim"
    /\ IF nextConnectionId >= maxConnId
       THEN /\ panicked' = "connectionId reached the limit"
            /\ UNCHANGED acc
       ELSE /\ acc' = [acc EXCEPT ![a].pc = "chk"]
            /\ UNCHANGED panicked
    /\ UNCHANGED <<GlobalSettings, codec, allConnections, unauthenticatedConnections,
                   nextConnectionId, connectionNum, conn, thr, flushw, recvw,
                   inStream, metrics, obs, now>>

\* AddConnection, lines 228-235
CheckIdExists(a) ==
    /\ Running
    /\ acc[a].pc = "chk"
    /\ IF allConnections[nextConnectionId] = Nil
       THEN /\ acc' = [acc EXCEPT ![a].pc = "new"]
            /\ UNCHANGED panicked
       ELSE IF acc[a].tries >= MaxTries
            THEN /\ panicked' = "could not find non-duplicate connId"
                 /\ UNCHANGED acc
            ELSE /\ acc' = [acc EXCEPT ![a].pc = "gen", ![a].tries = @ + 1]
                 /\ UNCHANGED panicked
    /\ UNCHANGED <<GlobalSettings, codec, allConnections, unauthenticatedConnections,
                   nextConnectionId, connectionNum, conn, thr, flushw, recvw,
                   inStream, metrics, obs, now>>

\* AddConnection, lines 238-283: the object is built with the id that
\* nextConnectionId holds now
ConstructConnection(a) ==
    /\ Running
    /\ acc[a].pc = "new"
    /\ conn' = Append(conn, NewConnection(nextConnectionId, a))
    /\ obs' = Append(obs, NewObs)
    /\ flushw' = Append(flushw, [NewFlushWorker EXCEPT !.pc = "unstarted"])
    /\ recvw' = Append(recvw, [NewRecvWorker EXCEPT !.pc = "unstarted"])
    /\ inStream' = Append(inStream, <<>>)
    /\ acc' = [acc EXCEPT ![a].pc = "store", ![a].o = Len(conn) + 1]
    /\ UNCHANGED <<GlobalSettings, codec, allConnections, unauthenticatedConnections,
                   nextConnectionId, connectionNum, thr, metrics, now, panicked>>

\* AddConnection, lines 285-293, and startGoroutines, lines 130-145
StoreConnection(a) ==
    /\ Running
    /\ acc[a].pc = "store"
    /\ LET o == acc[a].o
           id == conn[o].id
       IN /\ allConnections' = [allConnections EXCEPT ![id] = o]
          /\ unauthenticatedConnections' =
               IF GlobalSettings.AuthTimeout
               THEN [unauthenticatedConnections EXCEPT ![id] = o]
               ELSE unauthenticatedConnections
          /\ connectionNum' = [connectionNum EXCEPT ![a] = @ + 1]
          /\ flushw' = [flushw EXCEPT ![o].pc = "loop"]
          /\ recvw' = [recvw EXCEPT ![o].pc = "loop"]
    /\ acc' = [acc EXCEPT ![a] = IdleAcceptor]
    /\ UNCHANGED <<GlobalSettings, codec, nextConnectionId, conn, thr, inStream,
                   metrics, obs, now, panicked>>

\* connections AddConnection has returned: the ones callers hold
Returned == {o \in 1 .. Len(conn) : \A a \in Acceptors : acc[a].o # o}

(***************************************************************************)
(* Caller goroutines (channel handlers, the authentication sweeper, ...):  *)
(* Close, Send, OnAuthenticated and AddCloseHandler on the connections     *)
(* they hold, one step per access to shared state.                         *)
(***************************************************************************)
CanCall(t, o) ==
    /\ Running
    /\ thr[t].pc = "idle"
    /\ thr[t].ops < MaxOps
    /\ o \in Returned

Return(t) == [IdleThread EXCEPT !.ops = thr[t].ops]

\* AddCloseHandler, lines 296-298; a handler either returns or panics
AddCloseHandler(t, o, h) ==
    /\ CanCall(t, o)
    /\ Len(conn[o].closeHandlers) < MaxHandlers
    /\ conn' = [conn EXCEPT ![o].closeHandlers = Append(@, h)]
    /\ obs' = [obs EXCEPT ![o].handlerCalls = Append(@, 0)]
    /\ thr' = [thr EXCEPT ![t].ops = @ + 1]
    /\ UNCHANGED <<GlobalSettings, codec, allConnections, unauthenticatedConnections,
                   nextConnectionId, connectionNum, acc, flushw, recvw,
                   inStream, metrics, now, panicked>>

\* persistReplaySession, lines 754-766: the in-place rewrite of the offsets
RECURSIVE RewriteOffsets(_, _, _)
RewriteOffsets(packets, i, prevPacketTime) ==
    IF i > Len(packets)
    THEN packets
    ELSE RewriteOffsets([packets EXCEPT ![i] = packets[i] - prevPacketTime],
                        i + 1, packets[i])

persistReplaySession(c) ==
    IF Len(c.replaySession) > 0
    THEN [c EXCEPT !.replaySession =
                     RewriteOffsets(c.replaySession, 1, c.replaySession[1])]
    ELSE c

\* the handlers Close invokes, lines 313-315: all of them, or those up to
\* and including the first that panics
FirstPanic(hs) ==
    IF \E i \in 1 .. Len(hs) : hs[i] = "panic"
    THEN CHOOSE i \in 1 .. Len(hs) :
            /\ hs[i] = "panic"
            /\ \A j \in 1 .. (i - 1) : hs[j] # "panic"
    ELSE 0
Invoked(hs) == IF FirstPanic(hs) = 0 THEN Len(hs) ELSE FirstPanic(hs)

\* Close, lines 300-307: the entry and the guard, run by goroutine t
CloseEntry(t, o) ==
    IF IsClosing(conn[o])
    THEN /\ thr' = [thr EXCEPT ![t] = [IdleThread EXCEPT !.ops = thr[t].ops + 1]]
         /\ obs' = [obs EXCEPT ![o].closeReturned = TRUE]
    ELSE /\ thr' = [thr EXCEPT ![t] =
                      [op |-> "Close", pc |-> "handlers", o |-> o,
                       ops |-> thr[t].ops + 1, late |-> FALSE]]
         /\ UNCHANGED obs

Close(t, o) ==
    /\ CanCall(t, o)
    /\ CloseEntry(t, o)
    /\ UNCHANGED <<GlobalSettings, codec, allConnections, unauthenticatedConnections,
                   nextConnectionId, connectionNum, conn, acc, flushw, recvw,
                   inStream, metrics, now, panicked>>

\* Close, lines 309-315: the replay session is persisted (a session file is
\* written unless the session is empty) and the close handlers run; a
\* handler's panic is recovered at line 302 and ends Close
CloseHandlers(t) ==
    /\ Running
    /\ thr[t].op = "Close" /\ thr[t].pc = "handlers"
    /\ LET o == thr[t].o
           c == conn[o]
           rec == isPacketRecordingEnabled(c)
           hs == c.closeHandlers
       IN /\ conn' = [conn EXCEPT ![o] =
                        IF rec THEN persistReplaySession(c) ELSE c]
          /\ obs' = [obs EXCEPT
                ![o].persisted =
                    IF rec /\ Len(c.replaySession) > 0 THEN @ + 1 ELSE @,
                ![o].handlerCalls =
                    [i \in 1 .. Len(@) |->
                        IF i <= Invoked(hs) THEN @[i] + 1 ELSE @[i]],
                ![o].closeReturned = IF FirstPanic(hs) # 0 THEN TRUE ELSE @]
          /\ thr' = [thr EXCEPT ![t] =
                        IF FirstPanic(hs) # 0
                        THEN Return(t)
                        ELSE [@ EXCEPT !.pc = "state"]]
    /\ UNCHANGED <<GlobalSettings, codec, allConnections, unauthenticatedConnections,
                   nextConnectionId, connectionNum, acc, flushw, recvw,
                   inStream, metrics, now, panicked>>

\* Close, line 317
CloseStoreState(t) ==
    /\ Running
    /\ thr[t].op = "Close" /\ thr[t].pc = "state"
    /\ conn' = [conn EXCEPT ![thr[t].o].state = ConnectionState_CLOSING]
    /\ thr' = [thr EXCEPT ![t].pc = "socket"]
    /\ UNCHANGED <<GlobalSettings, codec, allConnections, unauthenticatedConnections,
                   nextConnectionId, connectionNum, acc, flushw, recvw,
                   inStream, metrics, obs, now, panicked>>

\* Close, line 318
CloseSocket(t) ==
    /\ Running
    /\ thr[t].op = "Close" /\ thr[t].pc = "socket"
    /\ conn' = [conn EXCEPT ![thr[t].o].socketClosed = TRUE]
    /\ obs' = [obs EXCEPT ![thr[t].o].socketCloseCalls = @ + 1]
    /\ thr' = [thr EXCEPT ![t].pc = "queue"]
    /\ UNCHANGED <<GlobalSettings, codec, allConnections, unauthenticatedConnections,
                   nextConnectionId, connectionNum, acc, flushw, recvw,
                   inStream, metrics, now, panicked>>

\* Close, line 319: closing a closed channel panics, which line 302 recovers
CloseSendQueue(t) ==
    /\ Running
    /\ thr[t].op = "Close" /\ thr[t].pc = "queue"
    /\ LET o == thr[t].o
       IN IF conn[o].queueClosed
          THEN /\ thr' = [thr EXCEPT ![t] = Return(t)]
               /\ obs' = [obs EXCEPT ![o].closeReturned = TRUE]
               /\ UNCHANGED conn
          ELSE /\ conn' = [conn EXCEPT ![o].queueClosed = TRUE]
               /\ thr' = [thr EXCEPT ![t].pc = "delete"]
               /\ UNCHANGED obs
    /\ UNCHANGED <<GlobalSettings, codec, allConnections, unauthenticatedConnections,
                   nextConnectionId, connectionNum, acc, flushw, recvw,
                   inStream, metrics, now, panicked>>

\* Close without its line 320: the registry entry is left in place
CloseDeleteSkipped(t) ==
    /\ Running
    /\ thr[t].op = "Close" /\ thr[t].pc = "delete"
    /\ thr' = [thr EXCEPT ![t].pc = "finish"]
    /\ UNCHANGED <<GlobalSettings, codec, allConnections,
                   unauthenticatedConnections, nextConnectionId, connectionNum,
                   conn, acc, flushw, recvw, inStream, metrics, obs, now,
                   panicked>>

\* Close, line 320
CloseDelete(t) ==
    /\ Running
    /\ thr[t].op = "Close" /\ thr[t].pc = "delete"
    /\ allConnections' = [allConnections EXCEPT ![conn[thr[t].o].id] = Nil]
    /\ obs' = [obs EXCEPT ![thr[t].o].deregistrations = @ + 1]
    /\ thr' = [thr EXCEPT ![t].pc = "finish"]
    /\ UNCHANGED <<GlobalSettings, codec, unauthenticatedConnections,
                   nextConnectionId, connectionNum, conn, acc, flushw, recvw,
                   inStream, metrics, now, panicked>>

\* Close, lines 321-325
CloseFinish(t) ==
    /\ Running
    /\ thr[t].op = "Close" /\ thr[t].pc = "finish"
    /\ LET o == thr[t].o
       IN /\ unauthenticatedConnections' =
               [unauthenticatedConnections EXCEPT ![conn[o].id] = Nil]
          /\ connectionNum' =
               [connectionNum EXCEPT ![conn[o].connectionType] = @ - 1]
          /\ obs' = [obs EXCEPT ![o].gaugeDecs = @ + 1,
                                ![o].closeReturned = TRUE]
    /\ thr' = [thr EXCEPT ![t] = Return(t)]
    /\ UNCHANGED <<GlobalSettings, codec, allConnections, nextConnectionId, conn,
                   acc, flushw, recvw, inStream, metrics, now, panicked>>

\* the contexts callers send: a small message, one just under the flush
\* limit, and one proto.Marshal rejects
CtxKinds == {"small", "big", "bad"}
CtxSize(ctx) == IF ctx.kind = "big" THEN FlushSizeLimit - 1 ELSE 1

\* Send, lines 604-609: the IsClosing check
Send(t, o, kind) ==
    /\ CanCall(t, o)
    /\ IF IsClosing(conn[o])
       THEN thr' = [thr EXCEPT ![t].ops = @ + 1]
       ELSE thr' = [thr EXCEPT ![t] =
                      [op |-> "Send", pc |-> "enqueue", o |-> o,
                       ops |-> thr[t].ops + 1,
                       late |-> obs[o].closeReturned,
                       ctx |-> [k |-> <<t, thr[t].ops>>, kind |-> kind,
                                late |-> obs[o].closeReturned]]]
    /\ UNCHANGED <<GlobalSettings, codec, allConnections, unauthenticatedConnections,
                   nextConnectionId, connectionNum, conn, acc, flushw, recvw,
                   inStream, metrics, obs, now, panicked>>

\* queuedMessageSender.Send, lines 48-50: c.sendQueue <- ctx blocks while
\* the queue is full and panics once the queue is closed
SendEnqueue(t) ==
    /\ Running
    /\ thr[t].op = "Send" /\ thr[t].pc = "enqueue"
    /\ LET o == thr[t].o
       IN IF conn[o].queueClosed
          THEN /\ panicked' = "send on closed channel"
               /\ UNCHANGED <<conn, obs, thr>>
          ELSE /\ Len(conn[o].sendQueue) < SendQueueCap
               /\ conn' = [conn EXCEPT ![o].sendQueue = Append(@, thr[t].ctx)]
               /\ obs' = [obs EXCEPT ![o].accepted = Append(@, thr[t].ctx)]
               /\ thr' = [thr EXCEPT ![t] = Return(t)]
               /\ UNCHANGED panicked
    /\ UNCHANGED <<GlobalSettings, codec, allConnections, unauthenticatedConnections,
                   nextConnectionId, connectionNum, acc, flushw, recvw,
                   inStream, metrics, now>>

\* the peer identity token goroutine t passes to OnAuthenticated
PitOf(t) == IF t = 1 THEN "pit-1" ELSE "pit-2"

\* OnAuthenticated without the IsClosing check of lines 709-711
OnAuthenticatedUnguarded(t, o) ==
    /\ CanCall(t, o)
    /\ thr' = [thr EXCEPT ![t] =
                  [op |-> "OnAuthenticated", pc |-> "store", o |-> o,
                   ops |-> thr[t].ops + 1, late |-> FALSE]]
    /\ UNCHANGED <<GlobalSettings, codec, allConnections, unauthenticatedConnections,
                   nextConnectionId, connectionNum, conn, acc, flushw, recvw,
                   inStream, metrics, obs, now, panicked>>

\* OnAuthenticated, lines 708-711
OnAuthenticated(t, o) ==
    /\ CanCall(t, o)
    /\ IF IsClosing(conn[o])
       THEN thr' = [thr EXCEPT ![t].ops = @ + 1]
       ELSE thr' = [thr EXCEPT ![t] =
                      [op |-> "OnAuthenticated", pc |-> "store", o |-> o,
                       ops |-> thr[t].ops + 1, late |-> FALSE]]
    /\ UNCHANGED <<GlobalSettings, codec, allConnections, unauthenticatedConnections,
                   nextConnectionId, connectionNum, conn, acc, flushw, recvw,
                   inStream, metrics, obs, now, panicked>>

\* OnAuthenticated, line 713
AuthStoreState(t) ==
    /\ Running
    /\ thr[t].op = "OnAuthenticated" /\ thr[t].pc = "store"
    /\ conn' = [conn EXCEPT ![thr[t].o].state = ConnectionState_AUTHENTICATED]
    /\ thr' = [thr EXCEPT ![t].pc = "rest"]
    /\ UNCHANGED <<GlobalSettings, codec, allConnections, unauthenticatedConnections,
                   nextConnectionId, connectionNum, acc, flushw, recvw,
                   inStream, metrics, obs, now, panicked>>

\* OnAuthenticated, lines 715-721
AuthFinish(t) ==
    /\ Running
    /\ thr[t].op = "OnAuthenticated" /\ thr[t].pc = "rest"
    /\ LET o == thr[t].o
       IN /\ unauthenticatedConnections' =
               [unauthenticatedConnections EXCEPT ![conn[o].id] = Nil]
          /\ conn' = [conn EXCEPT ![o].pit = PitOf(t),
                                  ![o].fsm = FsmMoveToNextState(@)]
    /\ thr' = [thr EXCEPT ![t] = Return(t)]
    /\ UNCHANGED <<GlobalSettings, codec, allConnections, nextConnectionId,
                   connectionNum, acc, flushw, recvw, inStream, metrics, obs,
                   now, panicked>>

(***************************************************************************)
(* The flush goroutine of a connection, startGoroutines lines 139-144 and  *)
(* flush lines 613-694.                                                    *)
(***************************************************************************)
\* proto.Size of a packet holding the contexts p
RECURSIVE PacketSize(_)
PacketSize(p) == IF p = <<>> THEN 0 ELSE CtxSize(Head(p)) + PacketSize(Tail(p))

\* startGoroutines, line 140
FlushLoop(o) ==
    /\ Running
    /\ o \in 1 .. Len(conn)
    /\ flushw[o].pc = "loop"
    /\ flushw' = [flushw EXCEPT ![o].pc =
                    IF IsClosing(conn[o]) THEN "exit" ELSE "begin"]
    /\ UNCHANGED <<GlobalSettings, codec, allConnections, unauthenticatedConnections,
                   nextConnectionId, connectionNum, conn, acc, thr, recvw,
                   inStream, metrics, obs, now, panicked>>

\* flush, lines 614-619
FlushBegin(o) ==
    /\ Running
    /\ o \in 1 .. Len(conn)
    /\ flushw[o].pc = "begin"
    /\ flushw' = [flushw EXCEPT ![o] =
                    IF Len(conn[o].sendQueue) = 0
                    THEN NewFlushWorker
                    ELSE [NewFlushWorker EXCEPT !.pc = "drain"]]
    /\ UNCHANGED <<GlobalSettings, codec, allConnections, unauthenticatedConnections,
                   nextConnectionId, connectionNum, conn, acc, thr, recvw,
                   inStream, metrics, obs, now, panicked>>

\* flush, lines 622-649: one turn of the draining loop
FlushDrain(o) ==
    /\ Running
    /\ o \in 1 .. Len(conn)
    /\ flushw[o].pc = "drain"
    /\ IF Len(conn[o].sendQueue) > 0
       THEN LET mc == Head(conn[o].sendQueue)
                w == flushw[o]
            IN /\ conn' = [conn EXCEPT ![o].sendQueue = Tail(@)]
               /\ flushw' = [flushw EXCEPT ![o] =
                    IF w.size + CtxSize(mc) >= FlushSizeLimit
                    THEN [w EXCEPT !.pc = "compress"]
                    ELSE IF mc.kind = "bad"
                         THEN w
                         ELSE [w EXCEPT !.p = Append(w.p, mc),
                                        !.size = PacketSize(Append(w.p, mc))]]
       ELSE /\ flushw' = [flushw EXCEPT ![o].pc = "compress"]
            /\ UNCHANGED conn
    /\ UNCHANGED <<GlobalSettings, codec, allConnections, unauthenticatedConnections,
                   nextConnectionId, connectionNum, acc, thr, recvw, inStream,
                   metrics, obs, now, panicked>>

\* flush, lines 651-661: marshal the packet and compress the bytes when
\* compressionType, read here without synchronisation, is SNAPPY
FlushCompress(o) ==
    /\ Running
    /\ o \in 1 .. Len(conn)
    /\ flushw[o].pc = "compress"
    /\ LET plain == PacketSize(flushw[o].p)
           snappy == conn[o].compressionType = CompressionType_SNAPPY
       IN flushw' = [flushw EXCEPT ![o].pc = "tag",
                                   ![o].snappy = snappy,
                                   ![o].len = IF snappy THEN plain + 1 ELSE plain]
    /\ UNCHANGED <<GlobalSettings, codec, allConnections, unauthenticatedConnections,
                   nextConnectionId, connectionNum, conn, acc, thr, recvw,
                   inStream, metrics, obs, now, panicked>>

\* flush, lines 663-672: the header, whose last byte is compressionType as
\* it is read a second time
FlushTag(o) ==
    /\ Running
    /\ o \in 1 .. Len(conn)
    /\ flushw[o].pc = "tag"
    /\ flushw' = [flushw EXCEPT
                    ![o].pc = "write",
                    ![o].tag = EncodeHeader(flushw[o].len, conn[o].compressionType)]
    /\ UNCHANGED <<GlobalSettings, codec, allConnections, unauthenticatedConnections,
                   nextConnectionId, connectionNum, conn, acc, thr, recvw,
                   inStream, metrics, obs, now, panicked>>

\* flush, lines 677-693: header and bytes go out in one Write; a write on
\* the closed socket fails and is logged
FlushWrite(o) ==
    /\ Running
    /\ o \in 1 .. Len(conn)
    /\ flushw[o].pc = "write"
    /\ LET packet == [tag |-> flushw[o].tag,
                      len |-> flushw[o].len,
                      snappy |-> flushw[o].snappy,
                      msgs |-> flushw[o].p]
       IN obs' = [obs EXCEPT ![o].wire =
                    IF conn[o].socketClosed THEN @ ELSE Append(@, packet)]
    /\ flushw' = [flushw EXCEPT ![o] = NewFlushWorker]
    /\ UNCHANGED <<GlobalSettings, codec, allConnections, unauthenticatedConnections,
                   nextConnectionId, connectionNum, conn, acc, thr, recvw,
                   inStream, metrics, now, panicked>>

(***************************************************************************)
(* The receive goroutine of a connection: startGoroutines lines 132-136,   *)
(* receive lines 331-447, readPacket lines 449-531 and receiveMessage      *)
(* lines 537-602.                                                          *)
(***************************************************************************)
\* receiveMessage without the FSM gate of lines 553-560
receiveMessageUngated(c, ob, mp) ==
    IF mp.ChannelId # 0
    THEN [c |-> c, ob |-> ob]
    ELSE IF mp.MsgType \notin MessageMap /\ mp.MsgType < USER_SPACE_START
    THEN [c |-> c, ob |-> ob]
    ELSE IF mp.MsgType = MSG_BADBODY
    THEN [c |-> c, ob |-> ob]
    ELSE [c |-> [c EXCEPT !.fsm = FsmOnReceived(c.fsm, mp.MsgType)],
          ob |-> [ob EXCEPT !.onReceivedCalls = @ + 1,
                            !.putMessages = Append(@, mp.MsgType)]]

\* receiveMessage, lines 537-602, on connection record c with observations ob
receiveMessage(c, ob, mp) ==
    IF mp.ChannelId # 0
    THEN [c |-> c, ob |-> ob]
    ELSE IF mp.MsgType \notin MessageMap /\ mp.MsgType < USER_SPACE_START
    THEN [c |-> c, ob |-> ob]
    ELSE IF ~FsmIsAllowed(c.fsm, mp.MsgType)
    THEN [c |-> c, ob |-> [ob EXCEPT !.disallowed = @ + 1]]
    ELSE IF mp.MsgType = MSG_BADBODY
    THEN [c |-> c, ob |-> ob]
    ELSE [c |-> [c EXCEPT !.fsm = FsmOnReceived(c.fsm, mp.MsgType)],
          ob |-> [ob EXCEPT !.onReceivedCalls = @ + 1,
                            !.putMessages = Append(@, mp.MsgType)]]

\* readPacket, lines 524-526; each call of receiveMessage is logged with the
\* FSM state before and after it and what it did
RECURSIVE receiveMessages(_, _, _)
receiveMessages(c, ob, mps) ==
    IF mps = <<>>
    THEN [c |-> c, ob |-> ob]
    ELSE LET mp == Head(mps)
             r == receiveMessage(c, ob, mp)
             call == [MsgType |-> mp.MsgType,
                      before |-> c.fsm,
                      after |-> r.c.fsm,
                      onReceived |-> r.ob.onReceivedCalls # ob.onReceivedCalls,
                      put |-> r.ob.putMessages # ob.putMessages]
         IN receiveMessages(r.c, [r.ob EXCEPT !.received = Append(@, call)],
                            Tail(mps))

\* recordPacket, lines 739-750, at time t
recordPacket(c, t) == [c EXCEPT !.replaySession = Append(@, t)]

\* readPacket, lines 488-531: the packet of fullSize bytes at bufPos is
\* complete and inside the buffer
DecodePacket(c, ob, m, bufPos, tag, fullSize, t) ==
    LET raw == SubSeq(c.readBuffer, bufPos + PacketHeaderSize + 1, bufPos + fullSize)
        ct == DecodeCompression(tag)
        c1 == IF ct # 0 THEN [c EXCEPT !.compressionType = ct] ELSE c
        snappy == ct = CompressionType_SNAPPY
        nil == [c |-> c1, ob |-> ob, m |-> m, bufPos |-> bufPos, ret |-> "nil",
                recorded |-> FALSE]
    IN IF snappy /\ ~SnappyDecodeOk(raw)
       THEN nil
       ELSE LET bytes == IF snappy THEN SnappyDecode(raw) ELSE raw
            IN IF ~UnmarshalOk(bytes)
               THEN nil
               ELSE LET p == Unmarshal(bytes)
                        rec == isPacketRecordingEnabled(c1)
                        c2 == IF rec THEN recordPacket(c1, t) ELSE c1
                        r == receiveMessages(c2,
                                 [ob EXCEPT !.decoded = Append(@, bytes)], p)
                    IN [c |-> r.c, ob |-> r.ob,
                        m |-> [m EXCEPT !.packetReceived = @ + 1],
                        bufPos |-> bufPos + fullSize, ret |-> "packet",
                        recorded |-> rec]

\* readPacket whose invalid-tag branch (451-458) forgets line 452 and keeps
\* readPos
readPacketKeepsReadPos(c, ob, m, bufPos, t) ==
    LET drop == [c |-> [c EXCEPT !.readPos = 0], ob |-> ob,
                 m |-> [m EXCEPT !.packetDropped = @ + 1],
                 bufPos |-> bufPos, ret |-> "nil", recorded |-> FALSE]
    IN IF bufPos + PacketHeaderSize > Len(c.readBuffer)
       THEN [c |-> c, ob |-> ob, m |-> m, bufPos |-> bufPos, ret |-> "panic",
             recorded |-> FALSE]
       ELSE LET tag == SubSeq(c.readBuffer, bufPos + 1, bufPos + PacketHeaderSize)
                packetSize == DecodeSize(tag)
                fullSize == PacketHeaderSize + packetSize
            IN IF tag[1] # TagC
               THEN [drop EXCEPT !.c = c]
               ELSE IF packetSize > MaxPacketSize
               THEN drop
               ELSE IF c.readPos < fullSize
               THEN [c |-> c, ob |-> ob, m |-> m,
                     bufPos |-> bufPos, ret |-> "nil", recorded |-> FALSE]
               ELSE IF bufPos + fullSize >= Len(c.readBuffer)
               THEN drop
               ELSE DecodePacket(c, ob, m, bufPos, tag, fullSize, t)

\* readPacket, lines 449-486: the header at bufPos
readPacket(c, ob, m, bufPos, t) ==
    LET drop == [c |-> [c EXCEPT !.readPos = 0], ob |-> ob,
                 m |-> [m EXCEPT !.packetDropped = @ + 1],
                 bufPos |-> bufPos, ret |-> "nil", recorded |-> FALSE]
    IN IF bufPos + PacketHeaderSize > Len(c.readBuffer)
       THEN [c |-> c, ob |-> ob, m |-> m, bufPos |-> bufPos, ret |-> "panic",
             recorded |-> FALSE]
       ELSE LET tag == SubSeq(c.readBuffer, bufPos + 1, bufPos + PacketHeaderSize)
                packetSize == DecodeSize(tag)
                fullSize == PacketHeaderSize + packetSize
            IN IF tag[1] # TagC
               THEN drop
               ELSE IF packetSize > MaxPacketSize
               THEN drop
               ELSE IF c.readPos < fullSize
               THEN [c |-> c, ob |-> ob, m |-> m,
                     bufPos |-> bufPos, ret |-> "nil", recorded |-> FALSE]
               ELSE IF bufPos + fullSize >= Len(c.readBuffer)
               THEN drop
               ELSE DecodePacket(c, ob, m, bufPos, tag, fullSize, t)

\* receive, lines 359-446, when one Read has delivered everything: the scan
\* from bufPos to its end; what it returns is what it has decoded
RECURSIVE ScanWhole(_, _, _, _)
ScanWhole(c, ob, m, bufPos) ==
    IF bufPos < c.readPos
    THEN LET r == readPacket(c, ob, m, bufPos, 0)
         IN IF r.ret = "packet"
            THEN ScanWhole(r.c, r.ob, r.m, r.bufPos)
            ELSE r.ob.decoded
    ELSE ob.decoded

\* the packets decoded from stream when a single Read delivers it to a new
\* connection
DecodedWhole(stream) ==
    LET c0 == NewConnection(1, "CLIENT")
        c == [c0 EXCEPT
                !.readBuffer = [i \in 1 .. ReadBufferSize |->
                                  IF i <= Len(stream) THEN stream[i] ELSE 0],
                !.readPos = Len(stream)]
    IN IF Len(stream) < PacketHeaderSize
       THEN <<>>
       ELSE ScanWhole(c, NewObs, NoMetrics, 0)

\* startGoroutines, line 133
RecvLoop(o) ==
    /\ Running
    /\ o \in 1 .. Len(conn)
    /\ recvw[o].pc = "loop"
    /\ recvw' = [recvw EXCEPT ![o].pc =
                    IF IsClosing(conn[o]) THEN "exit" ELSE "read"]
    /\ UNCHANGED <<GlobalSettings, codec, allConnections, unauthenticatedConnections,
                   nextConnectionId, connectionNum, conn, acc, thr, flushw,
                   inStream, metrics, obs, now, panicked>>

\* receive, lines 333-363: Read delivers the next k bytes of the stream (no
\* byte when the buffer has no room left)
RecvRead(o, k) ==
    /\ Running
    /\ o \in 1 .. Len(conn)
    /\ recvw[o].pc = "read"
    /\ ~conn[o].socketClosed
    /\ LET c == conn[o]
           room == Len(c.readBuffer) - c.readPos
       IN /\ IF room = 0
             THEN k = 0 /\ recvw[o].spins < MaxSpin
             ELSE k >= 1 /\ k <= room /\ k <= Len(inStream[o])
          /\ conn' = [conn EXCEPT
                ![o].readBuffer =
                    [i \in 1 .. Len(c.readBuffer) |->
                        IF i > c.readPos /\ i <= c.readPos + k
                        THEN inStream[o][i - c.readPos]
                        ELSE c.readBuffer[i]],
                ![o].readPos = c.readPos + k]
          /\ inStream' = [inStream EXCEPT ![o] = SubSeq(@, k + 1, Len(@))]
          /\ recvw' = [recvw EXCEPT ![o] =
                IF c.readPos + k < PacketHeaderSize
                THEN [@ EXCEPT !.pc = "loop"]
                ELSE [pc |-> "scan", bufPos |-> 0,
                      spins |-> IF k = 0 THEN @.spins + 1 ELSE @.spins]]
    /\ UNCHANGED <<GlobalSettings, codec, allConnections, unauthenticatedConnections,
                   nextConnectionId, connectionNum, acc, thr, flushw, metrics,
                   obs, now, panicked>>

\* receive, lines 334-356: Read fails, because the socket was closed here or
\* the peer has disconnected after its last byte, and receive calls Close
RecvReadError(o) ==
    /\ Running
    /\ o \in 1 .. Len(conn)
    /\ recvw[o].pc = "read"
    /\ conn[o].socketClosed \/ inStream[o] = <<>>
    /\ CloseEntry(RecvThread(o), o)
    /\ recvw' = [recvw EXCEPT ![o].pc = "close"]
    /\ UNCHANGED <<GlobalSettings, codec, allConnections, unauthenticatedConnections,
                   nextConnectionId, connectionNum, conn, acc, flushw,
                   inStream, metrics, now, panicked>>

\* receive, line 355: Close has returned
RecvReturn(o) ==
    /\ Running
    /\ o \in 1 .. Len(conn)
    /\ recvw[o].pc = "close"
    /\ thr[RecvThread(o)].pc = "idle"
    /\ recvw' = [recvw EXCEPT ![o].pc = "loop"]
    /\ UNCHANGED <<GlobalSettings, codec, allConnections, unauthenticatedConnections,
                   nextConnectionId, connectionNum, conn, acc, thr, flushw,
                   inStream, metrics, obs, now, panicked>>

\* receive, lines 436-446: one turn of the scan, a packet recorded at time
\* now + dt
RecvScan(o, dt) ==
    /\ Running
    /\ o \in 1 .. Len(conn)
    /\ recvw[o].pc = "scan"
    /\ LET r == readPacket(conn[o], obs[o], metrics, recvw[o].bufPos, now + dt)
       IN /\ dt = IF r.recorded THEN dt ELSE 0
          /\ now' = now + dt
          /\ obs' = [obs EXCEPT ![o] = r.ob]
          /\ CASE r.ret = "panic" ->
                    /\ panicked' = "slice bounds out of range"
                    /\ UNCHANGED <<conn, metrics, recvw>>
               [] r.ret = "nil" ->
                    /\ conn' = [conn EXCEPT ![o] = r.c]
                    /\ metrics' = r.m
                    /\ recvw' = [recvw EXCEPT ![o].pc = "loop"]
                    /\ UNCHANGED panicked
               [] r.ret = "packet" /\ r.bufPos < r.c.readPos ->
                    /\ conn' = [conn EXCEPT ![o] = r.c]
                    /\ metrics' = r.m
                    /\ recvw' = [recvw EXCEPT ![o].bufPos = r.bufPos]
                    /\ UNCHANGED panicked
               [] OTHER ->
                    /\ conn' = [conn EXCEPT ![o] = [r.c EXCEPT !.readPos = 0]]
                    /\ metrics' = r.m
                    /\ recvw' = [recvw EXCEPT ![o].pc = "loop"]
                    /\ UNCHANGED panicked
    /\ UNCHANGED <<GlobalSettings, codec, allConnections, unauthenticatedConnections,
                   nextConnectionId, connectionNum, acc, thr, flushw, inStream>>

(***************************************************************************)
(* Spec: the registry under two listeners that accept connections and two  *)
(* caller goroutines that close them.                                      *)
(***************************************************************************)
Next ==
    \/ \E a \in Acceptors : Accept(a)
    \/ \E a \in Acceptors : generateNextConnId(a)
    \/ \E a \in Acceptors : CheckIdLimit(a)
    \/ \E a \in Acceptors : CheckIdExists(a)
    \/ \E a \in Acceptors : ConstructConnection(a)
    \/ \E a \in Acceptors : StoreConnection(a)
    \/ \E t \in Threads, o \in ConnObj, h \in {"ok", "panic"} : AddCloseHandler(t, o, h)
    \/ \E t \in Threads, o \in ConnObj : Close(t, o)
    \/ \E t \in Threads : CloseHandlers(t)
    \/ \E t \in Threads : CloseStoreState(t)
    \/ \E t \in Threads : CloseSocket(t)
    \/ \E t \in Threads : CloseSendQueue(t)
    \/ \E t \in Threads : CloseDelete(t)
    \/ \E t \in Threads : CloseFinish(t)

Spec == Init /\ [][Next]_vars

(***************************************************************************)
(* SpecConn: one accepted client connection, its flush goroutine, and two  *)
(* caller goroutines that send on it, authenticate it and close it.        *)
(***************************************************************************)
\* the state AddConnection and startGoroutines leave after the first accept
InitAccepted ==
    /\ GlobalSettings =
         [Development |-> TRUE, EnableRecordPacket |-> TRUE, AuthTimeout |-> TRUE]
    /\ allConnections = [i \in IdSpace |-> IF i = 1 THEN 1 ELSE Nil]
    /\ unauthenticatedConnections = [i \in IdSpace |-> IF i = 1 THEN 1 ELSE Nil]
    /\ nextConnectionId = 1
    /\ connectionNum = [t \in Acceptors |-> IF t = "CLIENT" THEN 1 ELSE 0]
    /\ conn = <<NewConnection(1, "CLIENT")>>
    /\ acc = [a \in Acceptors |-> IdleAcceptor]
    /\ thr = [t \in AllThreads |-> IdleThread]
    /\ flushw = <<NewFlushWorker>>
    /\ recvw = <<NewRecvWorker>>
    /\ metrics = NoMetrics
    /\ now = 0
    /\ panicked = ""

InitConn ==
    /\ InitAccepted
    /\ obs = <<NewObs>>
    /\ codec = NoCodec
    /\ inStream = << <<>> >>

NextConn ==
    \/ \E t \in Threads, o \in ConnObj, h \in {"ok", "panic"} : AddCloseHandler(t, o, h)
    \/ \E t \in Threads, o \in ConnObj : Close(t, o)
    \/ \E t \in Threads : CloseHandlers(t)
    \/ \E t \in Threads : CloseStoreState(t)
    \/ \E t \in Threads : CloseSocket(t)
    \/ \E t \in Threads : CloseSendQueue(t)
    \/ \E t \in Threads : CloseDelete(t)
    \/ \E t \in Threads : CloseFinish(t)
    \/ \E t \in Threads, o \in ConnObj, k \in CtxKinds : Send(t, o, k)
    \/ \E t \in Threads : SendEnqueue(t)
    \/ \E t \in Threads, o \in ConnObj : OnAuthenticated(t, o)
    \/ \E t \in Threads : AuthStoreState(t)
    \/ \E t \in Threads : AuthFinish(t)
    \/ \E o \in ConnObj : FlushLoop(o)
    \/ \E o \in ConnObj : FlushBegin(o)
    \/ \E o \in ConnObj : FlushDrain(o)
    \/ \E o \in ConnObj : FlushCompress(o)
    \/ \E o \in ConnObj : FlushTag(o)
    \/ \E o \in ConnObj : FlushWrite(o)

SpecConn == InitConn /\ [][NextConn]_vars

(***************************************************************************)
(* SpecReceive: one accepted client connection whose peer writes a stream  *)
(* of packets, its receive goroutine, and one caller goroutine that        *)
(* authenticates and closes it.                                            *)
(***************************************************************************)
\* a packet as the peer frames it: the header of flush, then the body
Frame(ct, payload) ==
    LET body == IF ct = CompressionType_SNAPPY THEN SnappyEncode(payload) ELSE payload
    IN EncodeHeader(Len(body), ct) \o body

ValidFrames ==
    {Frame(0, <<MSG_AUTH>>),
     Frame(0, <<MSG_SYSTEM, MSG_USER>>),
     Frame(0, <<MSG_NOCHANNEL, MSG_UNDEFINED, MSG_BADBODY>>),
     Frame(CompressionType_SNAPPY, <<MSG_AUTH>>),
     Frame(0, <<>>)}

\* a header that does not open with 'C', and a payload that does not decode
BadFrames ==
    {<<88, TagH, TagN, 0, 0>>,
     Frame(0, <<BadByte>>)}

Frames == ValidFrames \cup BadFrames

RECURSIVE Concat(_)
Concat(fs) == IF fs = <<>> THEN <<>> ELSE Head(fs) \o Concat(Tail(fs))

\* what the peer writes: up to MaxFrames frames
FrameSeqs == UNION {[1 .. n -> Frames] : n \in 0 .. MaxFrames}

InitReceive ==
    /\ InitAccepted
    /\ codec = NoCodec
    /\ \E fs \in FrameSeqs :
          /\ inStream = <<Concat(fs)>>
          /\ obs = <<[NewObs EXCEPT !.frames = fs]>>

NextReceive ==
    \/ \E o \in ConnObj : RecvLoop(o)
    \/ \E o \in ConnObj, k \in 0 .. ReadBufferSize : RecvRead(o, k)
    \/ \E o \in ConnObj : RecvReadError(o)
    \/ \E o \in ConnObj : RecvReturn(o)
    \/ \E o \in ConnObj, dt \in 0 .. MaxTick : RecvScan(o, dt)
    \/ \E o \in ConnObj : Close(1, o)
    \/ \E t \in AllThreads : CloseHandlers(t)
    \/ \E t \in AllThreads : CloseStoreState(t)
    \/ \E t \in AllThreads : CloseSocket(t)
    \/ \E t \in AllThreads : CloseSendQueue(t)
    \/ \E t \in AllThreads : CloseDelete(t)
    \/ \E t \in AllThreads : CloseFinish(t)
    \/ \E o \in ConnObj : OnAuthenticated(1, o)
    \/ \E t \in AllThreads : AuthStoreState(t)
    \/ \E t \in AllThreads : AuthFinish(t)

SpecReceive == InitReceive /\ [][NextReceive]_vars

(***************************************************************************)
(* SpecScan: one accepted client connection with packet recording off, the *)
(* receive goroutine alone, and a peer that also writes packets the scan   *)
(* must refuse.                                                            *)
(***************************************************************************)
\* a packet whose full size is one more than the read buffer holds
BigFrame ==
    Frame(0, [i \in 1 .. (ReadBufferSize - PacketHeaderSize + 1) |-> MSG_USER])
\* a header that declares 0x010000 bytes, one more than MaxPacketSize
HugeHeader == <<TagC, 1, 0, 0, 0>>
\* a well-framed packet whose body snappy.Decode rejects
BadSnappy == EncodeHeader(1, CompressionType_SNAPPY) \o <<MSG_AUTH>>

ScanFrames == Frames \cup {BigFrame, HugeHeader, BadSnappy}
ScanSeqs == UNION {[1 .. n -> ScanFrames] : n \in 0 .. MaxScanFrames}

InitScan ==
    /\ GlobalSettings =
         [Development |-> TRUE, EnableRecordPacket |-> FALSE, AuthTimeout |-> TRUE]
    /\ allConnections = [i \in IdSpace |-> IF i = 1 THEN 1 ELSE Nil]
    /\ unauthenticatedConnections = [i \in IdSpace |-> IF i = 1 THEN 1 ELSE Nil]
    /\ nextConnectionId = 1
    /\ connectionNum = [t \in Acceptors |-> IF t = "CLIENT" THEN 1 ELSE 0]
    /\ conn = <<NewConnection(1, "CLIENT")>>
    /\ acc = [a \in Acceptors |-> IdleAcceptor]
    /\ thr = [t \in AllThreads |-> IdleThread]
    /\ flushw = <<NewFlushWorker>>
    /\ recvw = <<NewRecvWorker>>
    /\ metrics = NoMetrics
    /\ now = 0
    /\ panicked = ""
    /\ codec = NoCodec
    /\ \E fs \in ScanSeqs :
          /\ inStream = <<Concat(fs)>>
          /\ obs = <<[NewObs EXCEPT !.frames = fs]>>

NextScan ==
    \/ \E o \in ConnObj : RecvLoop(o)
    \/ \E o \in ConnObj, k \in 0 .. ReadBufferSize : RecvRead(o, k)
    \/ \E o \in ConnObj : RecvReadError(o)
    \/ \E o \in ConnObj : RecvReturn(o)
    \/ \E o \in ConnObj, dt \in 0 .. MaxTick : RecvScan(o, dt)
    \/ \E o \in ConnObj : CloseHandlers(RecvThread(o))
    \/ \E o \in ConnObj : CloseStoreState(RecvThread(o))
    \/ \E o \in ConnObj : CloseSocket(RecvThread(o))
    \/ \E o \in ConnObj : CloseSendQueue(RecvThread(o))
    \/ \E o \in ConnObj : CloseDelete(RecvThread(o))
    \/ \E o \in ConnObj : CloseFinish(RecvThread(o))

SpecScan == InitScan /\ [][NextScan]_vars

(***************************************************************************)
(* SpecWorkers: one accepted client connection with both its goroutines,   *)
(* a goroutine that closes it and a goroutine that authenticates it and    *)
(* sends on it.  Every goroutine that can take a step eventually takes it. *)
(***************************************************************************)
InitWorkers ==
    /\ InitAccepted
    /\ obs = <<NewObs>>
    /\ codec = NoCodec
    /\ inStream \in {<< <<>> >>, <<Frame(0, <<MSG_AUTH>>)>>}

NextWorkers ==
    \/ \E o \in ConnObj : RecvLoop(o)
    \/ \E o \in ConnObj, k \in 0 .. ReadBufferSize : RecvRead(o, k)
    \/ \E o \in ConnObj : RecvReadError(o)
    \/ \E o \in ConnObj : RecvReturn(o)
    \/ \E o \in ConnObj, dt \in 0 .. MaxTick : RecvScan(o, dt)
    \/ \E o \in ConnObj : FlushLoop(o)
    \/ \E o \in ConnObj : FlushBegin(o)
    \/ \E o \in ConnObj : FlushDrain(o)
    \/ \E o \in ConnObj : FlushCompress(o)
    \/ \E o \in ConnObj : FlushTag(o)
    \/ \E o \in ConnObj : FlushWrite(o)
    \/ \E o \in ConnObj : Close(1, o)
    \/ \E t \in AllThreads : CloseHandlers(t)
    \/ \E t \in AllThreads : CloseStoreState(t)
    \/ \E t \in AllThreads : CloseSocket(t)
    \/ \E t \in AllThreads : CloseSendQueue(t)
    \/ \E t \in AllThreads : CloseDelete(t)
    \/ \E t \in AllThreads : CloseFinish(t)
    \/ \E o \in ConnObj : Send(2, o, "small")
    \/ \E t \in AllThreads : SendEnqueue(t)
    \/ \E o \in ConnObj : OnAuthenticated(2, o)
    \/ \E t \in AllThreads : AuthStoreState(t)
    \/ \E t \in AllThreads : AuthFinish(t)

\* the Go scheduler runs every goroutine that is not blocked; a caller is
\* not obliged to start a new call
FairWorkers ==
    /\ \A o \in ConnObj :
          /\ WF_vars(RecvLoop(o))
          /\ WF_vars(\E k \in 0 .. ReadBufferSize : RecvRead(o, k))
          /\ WF_vars(RecvReadError(o))
          /\ WF_vars(RecvReturn(o))
          /\ WF_vars(\E dt \in 0 .. MaxTick : RecvScan(o, dt))
          /\ WF_vars(FlushLoop(o))
          /\ WF_vars(FlushBegin(o))
          /\ WF_vars(FlushDrain(o))
          /\ WF_vars(FlushCompress(o))
          /\ WF_vars(FlushTag(o))
          /\ WF_vars(FlushWrite(o))
    /\ \A t \in AllThreads :
          /\ WF_vars(CloseHandlers(t))
          /\ WF_vars(CloseStoreState(t))
          /\ WF_vars(CloseSocket(t))
          /\ WF_vars(CloseSendQueue(t))
          /\ WF_vars(CloseDelete(t))
          /\ WF_vars(CloseFinish(t))
          /\ WF_vars(SendEnqueue(t))
          /\ WF_vars(AuthStoreState(t))
          /\ WF_vars(AuthFinish(t))

SpecWorkers == InitWorkers /\ [][NextWorkers]_vars /\ FairWorkers

(***************************************************************************)
(* SpecSticky: one accepted client connection with its receive and flush   *)
(* goroutines, a peer whose packets name several compression types, and a  *)
(* caller that sends.                                                      *)
(***************************************************************************)
\* a compression type that is not of the enum
UnknownCompression == 2
\* packets with header byte 4 zero, SNAPPY and unknown; one SNAPPY packet
\* whose body does not decompress, and one that fails the magic test
StickyFrames ==
    {Frame(0, <<MSG_AUTH>>),
     Frame(CompressionType_SNAPPY, <<MSG_AUTH>>),
     EncodeHeader(1, UnknownCompression) \o <<MSG_USER>>,
     BadSnappy,
     <<88, TagH, TagN, 0, CompressionType_SNAPPY>>}
StickySeqs == UNION {[1 .. n -> StickyFrames] : n \in 0 .. MaxFrames}

InitSticky ==
    /\ GlobalSettings =
         [Development |-> TRUE, EnableRecordPacket |-> FALSE, AuthTimeout |-> TRUE]
    /\ allConnections = [i \in IdSpace |-> IF i = 1 THEN 1 ELSE Nil]
    /\ unauthenticatedConnections = [i \in IdSpace |-> IF i = 1 THEN 1 ELSE Nil]
    /\ nextConnectionId = 1
    /\ connectionNum = [t \in Acceptors |-> IF t = "CLIENT" THEN 1 ELSE 0]
    /\ conn = <<NewConnection(1, "CLIENT")>>
    /\ acc = [a \in Acceptors |-> IdleAcceptor]
    /\ thr = [t \in AllThreads |-> IdleThread]
    /\ flushw = <<NewFlushWorker>>
    /\ recvw = <<NewRecvWorker>>
    /\ metrics = NoMetrics
    /\ now = 0
    /\ panicked = ""
    /\ codec = NoCodec
    /\ \E fs \in StickySeqs :
          /\ inStream = <<Concat(fs)>>
          /\ obs = <<[NewObs EXCEPT !.frames = fs]>>

NextSticky ==
    \/ \E o \in ConnObj : RecvLoop(o)
    \/ \E o \in ConnObj, k \in 0 .. ReadBufferSize : RecvRead(o, k)
    \/ \E o \in ConnObj : RecvReadError(o)
    \/ \E o \in ConnObj : RecvReturn(o)
    \/ \E o \in ConnObj, dt \in 0 .. MaxTick : RecvScan(o, dt)
    \/ \E o \in ConnObj : CloseHandlers(RecvThread(o))
    \/ \E o \in ConnObj : CloseStoreState(RecvThread(o))
    \/ \E o \in ConnObj : CloseSocket(RecvThread(o))
    \/ \E o \in ConnObj : CloseSendQueue(RecvThread(o))
    \/ \E o \in ConnObj : CloseDelete(RecvThread(o))
    \/ \E o \in ConnObj : CloseFinish(RecvThread(o))
    \/ \E o \in ConnObj : Send(1, o, "small")
    \/ SendEnqueue(1)
    \/ \E o \in ConnObj : FlushLoop(o)
    \/ \E o \in ConnObj : FlushBegin(o)
    \/ \E o \in ConnObj : FlushDrain(o)
    \/ \E o \in ConnObj : FlushCompress(o)
    \/ \E o \in ConnObj : FlushTag(o)
    \/ \E o \in ConnObj : FlushWrite(o)

SpecSticky == InitSticky /\ [][NextSticky]_vars

(***************************************************************************)
(* SpecHeader: flush frames a payload of every length up to MaxPacketSize  *)
(* under every known compression type, and readPacket reads the header.    *)
(***************************************************************************)
InitHeader ==
    /\ InitAccepted
    /\ obs = <<NewObs>>
    /\ inStream = << <<>> >>
    /\ codec \in [len : 0 .. MaxPacketSize, ct : CompressionType_name,
                  tag : {<<>>}, read : {<<>>}]

\* flush, lines 663-672
WriteHeader ==
    /\ codec.tag = <<>>
    /\ codec' = [codec EXCEPT !.tag = EncodeHeader(codec.len, codec.ct)]
    /\ UNCHANGED <<GlobalSettings, allConnections, unauthenticatedConnections,
                   nextConnectionId, connectionNum, conn, acc, thr, flushw,
                   recvw, inStream, metrics, obs, now, panicked>>

\* readPacket, lines 450-465 and 493: the length and the compression byte
ReadHeader ==
    /\ codec.tag # <<>>
    /\ codec.read = <<>>
    /\ codec' = [codec EXCEPT !.read = <<DecodeSize(codec.tag), codec.tag[5]>>]
    /\ UNCHANGED <<GlobalSettings, allConnections, unauthenticatedConnections,
                   nextConnectionId, connectionNum, conn, acc, thr, flushw,
                   recvw, inStream, metrics, obs, now, panicked>>

NextHeader == WriteHeader \/ ReadHeader

SpecHeader == InitHeader /\ [][NextHeader]_vars

(***************************************************************************)
(* Properties.                                                             *)
(***************************************************************************)
Conns == 1 .. Len(conn)
InSeq(x, q) == \E i \in 1 .. Len(q) : q[i] = x
IsPrefix(p, q) == Len(p) <= Len(q) /\ \A i \in 1 .. Len(p) : p[i] = q[i]
\* the goroutines inside Close on connection o
Closers(o) == {t \in AllThreads : thr[t].op = "Close" /\ thr[t].o = o}

\* C1: once a call of Close(c) has returned, GetConnection(c.id) returns nil
\* and no Send(c, ctx) that starts afterwards puts its context on the queue.
C1_AfterCloseReturned ==
    \A o \in Conns :
        obs[o].closeReturned =>
            /\ GetConnection(conn[o].id) = Nil
            /\ \A i \in 1 .. Len(obs[o].accepted) : ~obs[o].accepted[i].late
            /\ \A t \in Threads :
                  ~(thr[t].op = "Send" /\ thr[t].o = o /\ thr[t].late)

\* C2: no two connections that AddConnection has returned and that are not
\* closing carry the same ConnectionId.
Live(o) == o \in Returned /\ ~IsClosing(conn[o])
C2_UniqueLiveIds ==
    \A o1, o2 \in Conns :
        (o1 # o2 /\ Live(o1) /\ Live(o2)) => conn[o1].id # conn[o2].id

\* C4: the state of a connection never decreases: UNAUTHENTICATED, then
\* AUTHENTICATED, then CLOSING, and CLOSING is final.
C4_StateMonotonic ==
    [][\A o \in Conns : conn'[o].state >= conn[o].state]_vars

\* C5: in a step that starts with the connection CLOSING, no message is
\* handed to a channel queue and no context is put on the send queue.
C5_NothingAfterClosing ==
    [][\A o \in Conns :
          conn[o].state = ConnectionState_CLOSING =>
              /\ obs'[o].putMessages = obs[o].putMessages
              /\ obs'[o].accepted = obs[o].accepted]_vars

\* C6: whatever Close calls are made on a connection, each teardown effect
\* (every close handler, the socket close, the deregistration, the gauge
\* decrement, the replay session's persistence) takes place at most once.
C6_TeardownOnce ==
    \A o \in Conns :
        /\ \A i \in 1 .. Len(obs[o].handlerCalls) : obs[o].handlerCalls[i] <= 1
        /\ obs[o].socketCloseCalls <= 1
        /\ obs[o].deregistrations <= 1
        /\ obs[o].gaugeDecs <= 1
        /\ obs[o].persisted <= 1

\* C8: the length and the compression type readPacket reads from a header
\* are the ones flush framed.
C8_HeaderRoundTrip ==
    codec.read # <<>> => codec.read = <<codec.len, codec.ct>>

\* C3: for a stream of valid packets that one Read could deliver, the
\* packets decoded so far are, whatever the split into reads, the first of
\* those a single Read yields, and all of them once every byte has arrived.
ValidStream(o) ==
    /\ \A i \in 1 .. Len(obs[o].frames) : obs[o].frames[i] \in ValidFrames
    /\ Len(Concat(obs[o].frames)) <= ReadBufferSize
AllDelivered(o) ==
    /\ inStream[o] = <<>>
    /\ recvw[o].pc = "read"
    /\ ~IsClosing(conn[o])
    /\ ~conn[o].socketClosed
C3_SplitInvariant ==
    \A o \in Conns :
        ValidStream(o) =>
            /\ IsPrefix(obs[o].decoded, DecodedWhole(Concat(obs[o].frames)))
            /\ AllDelivered(o) =>
                  obs[o].decoded = DecodedWhole(Concat(obs[o].frames))

\* C7: a message whose type the FSM does not allow when receiveMessage is
\* called is not handed to the channel queue, fsm.OnReceived is not called
\* for it, and the FSM state stays as it was.
C7_DisallowedDropped ==
    \A o \in Conns :
        \A i \in 1 .. Len(obs[o].received) :
            LET e == obs[o].received[i]
            IN ~FsmIsAllowed(e.before, e.MsgType) =>
                  /\ ~e.put
                  /\ ~e.onReceived
                  /\ e.after = e.before

\* a message that reached the FSM gate of receiveMessage and was refused
C7_Witness ==
    \E o \in Conns :
        /\ obs[o].disallowed > 0
        /\ \E i \in 1 .. Len(obs[o].received) :
              LET e == obs[o].received[i]
              IN /\ e.MsgType \in MessageMap
                 /\ ~FsmIsAllowed(e.before, e.MsgType)

\* C9: the send queue never holds more than its capacity, and on an open
\* connection no serializable context Send has enqueued is lost: it is in
\* the queue, in the packet flush is assembling, or in a packet flush wrote
\* (a context that is in none of them can never reach a written packet).
C9_NoContextDropped ==
    \A o \in Conns :
        /\ Len(conn[o].sendQueue) <= SendQueueCap
        /\ (~IsClosing(conn[o]) /\ ~conn[o].socketClosed) =>
              \A i \in 1 .. Len(obs[o].accepted) :
                  LET ctx == obs[o].accepted[i]
                  IN ctx.kind # "bad" =>
                        \/ InSeq(ctx, conn[o].sendQueue)
                        \/ InSeq(ctx, flushw[o].p)
                        \/ \E j \in 1 .. Len(obs[o].wire) :
                              InSeq(ctx, obs[o].wire[j].msgs)

\* C10 as stated: at every instant a connection is in the registry iff it
\* is not closing.
C10_RegistryIffNotClosing ==
    \A o \in Conns :
        (allConnections[conn[o].id] = o) <=> ~IsClosing(conn[o])

\* C10, amended: a closing connection that no goroutine is inside Close on
\* is absent from the registry.
C10_ClosedIsDeregistered ==
    \A o \in Conns :
        (IsClosing(conn[o]) /\ Closers(o) = {}) =>
            allConnections[conn[o].id] # o

\* a connection on which Close has run to its end
C10_Witness ==
    \E o \in Conns :
        /\ IsClosing(conn[o])
        /\ Closers(o) = {}
        /\ obs[o].gaugeDecs = 1

\* C11: no interleaving of Send with Close ends the sending goroutine, and
\* with it the process, in the panic of a send on the closed send queue.
C11_SendNeverPanics == panicked # "send on closed channel"

\* C12: readPos never exceeds the length of the read buffer and the receive
\* path never slices the read buffer outside its bounds.
C12_BufferBounds ==
    /\ \A o \in Conns : conn[o].readPos <= Len(conn[o].readBuffer)
    /\ panicked # "slice bounds out of range"

\* C13: every id AddConnection has given a connection lies in
\* 1 .. 2^MaxConnectionIdBits - 1.
C13_IdInRange == \A o \in Conns : conn[o].id \in 1 .. maxConnId

\* C14: once a call of Close(c) has returned and none is in progress, the
\* rest of Close has run whatever the close handlers did: the state is
\* CLOSING, the socket and the send queue are closed and c is in neither map.
C14_HandlersIsolated ==
    \A o \in Conns :
        (obs[o].closeReturned /\ Closers(o) = {}) =>
            /\ conn[o].state = ConnectionState_CLOSING
            /\ conn[o].socketClosed
            /\ conn[o].queueClosed
            /\ allConnections[conn[o].id] # o
            /\ unauthenticatedConnections[conn[o].id] # o

\* C15: no step removes a serializable context from the send queue without
\* putting it in the packet flush is gathering, and the contexts that stay
\* queued keep their order.
C15_RemainderStaysQueued ==
    [][\A o \in Conns :
          LET q == conn[o].sendQueue
              q1 == conn'[o].sendQueue
          IN /\ \A i \in 1 .. Len(q) :
                   q[i].kind # "bad" =>
                       \/ InSeq(q[i], q1)
                       \/ InSeq(q[i], flushw'[o].p)
             /\ \/ IsPrefix(q, q1)
                \/ q1 = Tail(q)]_vars

\* the header at bufPos and what it declares
TagAt(c, bufPos) == SubSeq(c.readBuffer, bufPos + 1, bufPos + PacketHeaderSize)
FullSizeAt(c, bufPos) == PacketHeaderSize + DecodeSize(TagAt(c, bufPos))
\* a whole packet has been received at bufPos, with the magic byte, a legal
\* size and room in the buffer
WellFramedAt(c, bufPos) ==
    /\ bufPos + PacketHeaderSize <= c.readPos
    /\ TagAt(c, bufPos)[1] = TagC
    /\ DecodeSize(TagAt(c, bufPos)) <= MaxPacketSize
    /\ bufPos + FullSizeAt(c, bufPos) <= c.readPos
    /\ bufPos + FullSizeAt(c, bufPos) < Len(c.readBuffer)
\* its body fails decompression or Packet unmarshalling
DecodeFailsAt(c, bufPos) ==
    /\ WellFramedAt(c, bufPos)
    /\ LET raw == SubSeq(c.readBuffer, bufPos + PacketHeaderSize + 1,
                         bufPos + FullSizeAt(c, bufPos))
           snappy == DecodeCompression(TagAt(c, bufPos)) = CompressionType_SNAPPY
       IN IF snappy
          THEN ~SnappyDecodeOk(raw) \/ ~UnmarshalOk(SnappyDecode(raw))
          ELSE ~UnmarshalOk(raw)

\* C16: a scan step on a well-framed packet that fails to decode leaves the
\* connection open and moves past the packet: the scan goes on at
\* bufPos + fullSize, or the buffer is reset when the packet was its last.
C16_DecodeErrorAdvances ==
    [][\A o \in Conns :
          (/\ recvw[o].pc = "scan"
           /\ recvw'[o] # recvw[o]
           /\ DecodeFailsAt(conn[o], recvw[o].bufPos)) =>
              LET e == recvw[o].bufPos + FullSizeAt(conn[o], recvw[o].bufPos)
              IN /\ ~IsClosing(conn'[o])
                 /\ panicked' = ""
                 /\ IF e < conn[o].readPos
                    THEN recvw'[o].pc = "scan" /\ recvw'[o].bufPos = e
                    ELSE recvw'[o].pc = "loop" /\ conn'[o].readPos = 0]_vars

\* the received header at bufPos declares more than MaxPacketSize bytes, or
\* a packet larger than the read buffer
OversizedAt(c, bufPos) ==
    /\ bufPos + PacketHeaderSize <= c.readPos
    /\ TagAt(c, bufPos)[1] = TagC
    /\ \/ DecodeSize(TagAt(c, bufPos)) > MaxPacketSize
       \/ FullSizeAt(c, bufPos) > Len(c.readBuffer)

\* C17: a scan step on such a header drops the packet: the dropped counter
\* goes up by one, readPos is reset to 0 and the worker returns to its loop.
C17_OversizeDropped ==
    [][\A o \in Conns :
          (/\ recvw[o].pc = "scan"
           /\ recvw'[o] # recvw[o]
           /\ OversizedAt(conn[o], recvw[o].bufPos)) =>
              /\ metrics'.packetDropped = metrics.packetDropped + 1
              /\ conn'[o].readPos = 0
              /\ recvw'[o].pc = "loop"]_vars

\* readPacket has taken the header at bufPos (the slice of line 450 lies
\* inside the read buffer) and it does not open with the magic byte
BadMagicAt(c, bufPos) ==
    /\ bufPos + PacketHeaderSize <= Len(c.readBuffer)
    /\ TagAt(c, bufPos)[1] # TagC
\* the buffer holds exactly the valid packet f, received whole
HoldsExactly(c, f) ==
    /\ c.readPos = Len(f)
    /\ SubSeq(c.readBuffer, 1, Len(f)) = f

\* C18: a scan step on a header without the magic byte drops the packet: the
\* dropped counter goes up by exactly one, nothing is decoded or dispatched,
\* readPos is reset to 0 and the connection stays open; and once a packet has
\* been dropped, a valid packet that then arrives whole is decoded and its
\* messages are handed to receiveMessage.
C18_BadMagicDropped ==
    [][\A o \in Conns :
          (/\ recvw[o].pc = "scan"
           /\ recvw'[o] # recvw[o] \/ panicked' # panicked) =>
              /\ BadMagicAt(conn[o], recvw[o].bufPos) =>
                    /\ metrics'.packetDropped = metrics.packetDropped + 1
                    /\ obs'[o].decoded = obs[o].decoded
                    /\ obs'[o].received = obs[o].received
                    /\ obs'[o].putMessages = obs[o].putMessages
                    /\ conn'[o].readPos = 0
                    /\ recvw'[o].pc = "loop"
                    /\ ~IsClosing(conn'[o])
                    /\ panicked' = ""
              /\ \A f \in ValidFrames :
                    (/\ metrics.packetDropped > 0
                     /\ recvw[o].bufPos = 0
                     /\ HoldsExactly(conn[o], f)) =>
                        /\ obs'[o].decoded = obs[o].decoded \o DecodedWhole(f)
                        /\ Len(obs'[o].received) =
                              Len(obs[o].received) + Len(DecodedWhole(f)[1])
                        /\ conn'[o].readPos = 0]_vars

\* a packet without the magic byte was dropped and the valid packet written
\* after it was decoded
C18_Witness ==
    \E o \in Conns :
        /\ Len(obs[o].frames) = 2
        /\ obs[o].frames[1] = <<88, TagH, TagN, 0, 0>>
        /\ obs[o].frames[2] \in ValidFrames
        /\ metrics.packetDropped = 1
        /\ obs[o].decoded = DecodedWhole(obs[o].frames[2])
        /\ Len(obs[o].received) > 0

\* C19: whenever the state of a connection is CLOSING, both of its workers
\* eventually have left their loops, unless a panic has ended the process.
C19_WorkersExit ==
    \A o \in ConnObj :
        (o \in Conns /\ conn[o].state = ConnectionState_CLOSING)
            ~> (/\ o \in Conns
                /\ \/ panicked # ""
                   \/ recvw[o].pc = "exit" /\ flushw[o].pc = "exit")

\* what every step of OnAuthenticated does, whatever runs beside it: the
\* body is entered only on a connection that is not closing; the store makes
\* the state AUTHENTICATED; the last step removes the connection from the
\* unauthenticated subset and records the caller's token; and a call that
\* returns at once on a closing connection changes none of them
AuthSteps(t) ==
    LET o == thr[t].o
        o1 == thr'[t].o
    IN /\ (thr[t].op # "OnAuthenticated" /\ thr'[t].op = "OnAuthenticated") =>
             ~IsClosing(conn[o1]) /\ conn' = conn
       /\ (thr[t].op = "OnAuthenticated" /\ thr[t].pc = "store"
             /\ thr'[t].pc = "rest") =>
             conn'[o].state = ConnectionState_AUTHENTICATED
       /\ (thr[t].op = "OnAuthenticated" /\ thr[t].pc = "rest"
             /\ thr'[t].pc = "idle") =>
             /\ unauthenticatedConnections'[conn[o].id] = Nil
             /\ conn'[o].pit = PitOf(t)
             /\ conn'[o].state >= ConnectionState_AUTHENTICATED
       /\ (thr[t].pc = "idle" /\ thr'[t].pc = "idle"
             /\ thr'[t].ops = thr[t].ops + 1) =>
             \A c \in Conns :
                 IsClosing(conn[c]) =>
                     /\ conn'[c].state = conn[c].state
                     /\ conn'[c].pit = conn[c].pit
                     /\ conn'[c].fsm = conn[c].fsm
                     /\ allConnections' = allConnections
                     /\ unauthenticatedConnections' = unauthenticatedConnections

\* C20 as stated: the last step of OnAuthenticated leaves the connection
\* with state AUTHENTICATED and its FSM exactly one state further.
C20_AuthenticatedAndAdvanced ==
    [][\A t \in Threads :
          /\ AuthSteps(t)
          /\ (thr[t].op = "OnAuthenticated" /\ thr[t].pc = "rest"
                /\ thr'[t].pc = "idle") =>
                /\ conn'[thr[t].o].state = ConnectionState_AUTHENTICATED
                /\ conn'[thr[t].o].fsm = conn[thr[t].o].fsm + 1]_vars

\* C20, amended: the FSM moves one state further when it has a next state
\* and stays where it is when it has none, and the state at return is
\* AUTHENTICATED or, when a Close stored CLOSING meanwhile, CLOSING.
C20_OnAuthenticatedEffects ==
    [][\A t \in Threads :
          /\ AuthSteps(t)
          /\ (thr[t].op = "OnAuthenticated" /\ thr[t].pc = "rest"
                /\ thr'[t].pc = "idle") =>
                conn'[thr[t].o].fsm =
                    IF FsmHasNext(conn[thr[t].o].fsm)
                    THEN conn[thr[t].o].fsm + 1
                    ELSE conn[thr[t].o].fsm]_vars

\* a call of OnAuthenticated has run to its end on an open connection
C20_Witness ==
    \E o \in Conns :
        /\ conn[o].state = ConnectionState_AUTHENTICATED
        /\ conn[o].pit = "pit-1"
        /\ conn[o].fsm = FSM_HANDSHAKE
        /\ unauthenticatedConnections[conn[o].id] = Nil
        /\ \A t \in Threads : thr[t].pc = "idle"

\* C22: the step of Close that persists a non-empty replay session leaves
\* the first packet's offsetTime at its recorded timestamp and sets every
\* later packet's offsetTime to its recorded timestamp minus that of the
\* packet before it, in the same order.
C22_OffsetsAreDeltas ==
    [][\A o \in Conns :
          obs'[o].persisted > obs[o].persisted =>
              LET packets == conn[o].replaySession
                  rewritten == conn'[o].replaySession
              IN /\ Len(rewritten) = Len(packets)
                 /\ rewritten[1] = packets[1]
                 /\ \A i \in 2 .. Len(packets) :
                        rewritten[i] = packets[i] - packets[i - 1]]_vars

\* the compression type changes only in a scan step of the receive
\* goroutine at a position where the five bytes of a header have been
\* received and byte 4 is a non-zero value of the enum, and then becomes that
\* value; a packet received whole sets it when its byte 4 is such a value
\* and leaves it unchanged otherwise
StickySetByReceive ==
    \A o \in Conns :
        LET tag == TagAt(conn[o], recvw[o].bufPos)
            known == tag[5] \in CompressionType_name /\ tag[5] # 0
        IN /\ conn'[o].compressionType # conn[o].compressionType =>
                /\ recvw[o].pc = "scan"
                /\ recvw[o].bufPos + PacketHeaderSize <= conn[o].readPos
                /\ known
                /\ conn'[o].compressionType = tag[5]
           /\ (/\ recvw[o].pc = "scan"
               /\ recvw'[o] # recvw[o]
               /\ WellFramedAt(conn[o], recvw[o].bufPos)) =>
                conn'[o].compressionType =
                    IF known THEN tag[5] ELSE conn[o].compressionType

\* C21: compressionType changes only on a received packet whose header byte
\* 4 is a non-zero value of the enum and then becomes that value, a zero or
\* unrecognized value leaves it unchanged, and every packet flush writes
\* carries in header byte 4 the value compressionType has when it is written.
C21_StickyCompression ==
    [][/\ StickySetByReceive
       /\ \A o \in Conns :
             Len(obs'[o].wire) > Len(obs[o].wire) =>
                 obs'[o].wire[Len(obs'[o].wire)].tag[5] = conn[o].compressionType]_vars

====
